---------------------------- MODULE Spec2Model ----------------------------
(***************************************************************************)
(* A model of astro_docs_to_pdf.py: the text transformations applied to    *)
(* every document (image rewriting, code-block decoration, frontmatter     *)
(* extraction and parsing), file discovery, and the table-of-contents      *)
(* numbering and page assembly of process_files.                           *)
(*                                                                         *)
(* Text is a sequence of characters, each a one-character string (BQ for   *)
(* the backquote).  The regular expressions of the source are transcribed  *)
(* as syntax trees and run by a backtracking matcher that lists the ways a *)
(* pattern can match in the order Python's re module tries them, so the    *)
(* first listed way is the match re returns.                               *)
(***************************************************************************)
EXTENDS Integers, Sequences, FiniteSets, TLC

VARIABLES
    pc,          \* position in the run
    tree,        \* the files on disk under the discovery root (relative parts)
    files,       \* the list handed to process_files
    index,       \* loop index of process_files (0-based, as enumerate)
    numbering,   \* process_files: the counters
    toc,         \* process_files: the TOC entries appended so far
    pages,       \* process_files: html_all_pages_content
    log,         \* per processed file: what became of it
    text,        \* input of the text transformation under check
    result,      \* its output
    sys          \* outside the documents: directories, rendering resources,
                 \* the exception in flight, the exit code

vars == <<pc, tree, files, index, numbering, toc, pages, log, text, result, sys>>

----------------------------------------------------------------------------
(* Evaluation                                                              *)

\* "LET x == e IN F(x)" with e evaluated once, however often F uses x.  An
\* operator's argument is evaluated each time the operator's body uses it;
\* binding it as the element of a set makes it a value first.
With(e, F(_)) == CHOOSE r \in {F(x) : x \in {e}} : TRUE

\* a sequence given by a rule, as the tuple of its elements
Tuple(f) == f \o <<>>

\* a function given by a rule, as the table of its values
Table(f) == f @@ <<>>

----------------------------------------------------------------------------
(* Characters and strings                                                  *)

Lower == {"a","b","c","d","e","f","g","h","i","j","k","l","m",
          "n","o","p","q","r","s","t","u","v","w","x","y","z"}
Upper == {"A","B","C","D","E","F","G","H","I","J","K","L","M",
          "N","O","P","Q","R","S","T","U","V","W","X","Y","Z"}
Digit == {"0","1","2","3","4","5","6","7","8","9"}

\* \w of Python's re, on ASCII text
WordChars == Lower \cup Upper \cup Digit \cup {"_"}

\* \s of Python's re and the characters str.strip() removes, on ASCII text
SpaceChars == {" ", "\t", "\n", "\r", "\f"}

\* The backquote character, which a TLA+ string literal cannot hold
BQ == "backquote"

\* The printable ASCII characters in code-point order, from 32 (space)
Ascii == <<" ","!","\"","#","$","%","&","'","(",")","*","+",",","-",".","/",
           "0","1","2","3","4","5","6","7","8","9",":",";","<","=",">","?",
           "@","A","B","C","D","E","F","G","H","I","J","K","L","M","N","O",
           "P","Q","R","S","T","U","V","W","X","Y","Z","[","\\","]","^","_",
           BQ,"a","b","c","d","e","f","g","h","i","j","k","l","m","n","o",
           "p","q","r","s","t","u","v","w","x","y","z","{","|","}","~">>

\* ord(c): the position in Ascii plus 31; control characters sort below space
CodePoint(c) ==
    IF \E k \in 1..Len(Ascii) : Ascii[k] = c
    THEN 31 + (CHOOSE k \in 1..Len(Ascii) : Ascii[k] = c)
    ELSE 10

Min(set) == CHOOSE x \in set : \A y \in set : x <= y
Max(set) == CHOOSE x \in set : \A y \in set : y <= x

\* a < b for Python strings: by code point at the first difference, a proper
\* prefix first
StrLess(a0, b0) ==
    With(a0, LAMBDA a : With(b0, LAMBDA b :
        With({k \in 1..Len(a) : k > Len(b) \/ a[k] # b[k]}, LAMBDA diff :
            IF diff = {} THEN Len(a) < Len(b)
            ELSE With(Min(diff), LAMBDA d :
                     d <= Len(b) /\ CodePoint(a[d]) < CodePoint(b[d])))))

\* s[i:j] with 1-based inclusive bounds; empty when j < i
Slice(s, i0, j0) ==
    With(i0, LAMBDA i : With(j0, LAMBDA j : IF j < i THEN <<>> ELSE SubSeq(s, i, j)))

\* s.startswith(p) and s.endswith(p)
StartsWith(s0, p0) ==
    With(s0, LAMBDA s : With(p0, LAMBDA p :
        Len(p) <= Len(s) /\ SubSeq(s, 1, Len(p)) = p))

EndsWith(s0, p0) ==
    With(s0, LAMBDA s : With(p0, LAMBDA p :
        Len(p) <= Len(s) /\ SubSeq(s, Len(s) - Len(p) + 1, Len(s)) = p))

\* p occurs in s starting at position i
OccursAt(s, p, i) ==
    i >= 1 /\ i + Len(p) - 1 <= Len(s) /\ SubSeq(s, i, i + Len(p) - 1) = p

\* "p in s" for strings
Contains(s0, p0) ==
    With(s0, LAMBDA s : With(p0, LAMBDA p :
        \E i \in 1..(Len(s) + 1) : OccursAt(s, p, i)))

\* s.count(c) for a one-character c
CountChar(s0, c) == With(s0, LAMBDA s : Cardinality({i \in 1..Len(s) : s[i] = c}))

\* s.lstrip(cs), s.rstrip(cs), s.strip(cs) for a set of characters cs
LStripSet(s0, cs) ==
    With(s0, LAMBDA s :
        With({i \in 1..Len(s) : s[i] \notin cs}, LAMBDA keep :
            IF keep = {} THEN <<>> ELSE SubSeq(s, Min(keep), Len(s))))

RStripSet(s0, cs) ==
    With(s0, LAMBDA s :
        With({i \in 1..Len(s) : s[i] \notin cs}, LAMBDA keep :
            IF keep = {} THEN <<>> ELSE SubSeq(s, 1, Max(keep))))

StripSet(s, cs) == RStripSet(LStripSet(s, cs), cs)

\* s.strip()
Strip(s) == StripSet(s, SpaceChars)

\* s.split(sep) for a one-character sep: always at least one piece; piece k
\* lies between the (k-1)th and the kth separator
Split(s0, sep) ==
    With(s0, LAMBDA s :
        With({i \in 1..Len(s) : s[i] = sep}, LAMBDA at :
            LET nth(k) == IF k = 0 THEN 0
                          ELSE IF k > Cardinality(at) THEN Len(s) + 1
                          ELSE CHOOSE i \in at : Cardinality({j \in at : j < i}) = k - 1
            IN  Tuple([k \in 1..(Cardinality(at) + 1) |->
                          Slice(s, nth(k - 1) + 1, nth(k) - 1)])))

\* s.split(sep, 1): at most one split
Split1(s0, sep) ==
    With(s0, LAMBDA s :
        With({i \in 1..Len(s) : s[i] = sep}, LAMBDA at :
            IF at = {} THEN <<s>>
            ELSE <<Slice(s, 1, Min(at) - 1), Slice(s, Min(at) + 1, Len(s))>>))

\* the concatenation of parts[lo..hi]
RECURSIVE ConcatRange(_, _, _)
ConcatRange(parts, lo, hi) ==
    IF lo > hi THEN <<>>
    ELSE IF lo = hi THEN parts[lo]
    ELSE With((lo + hi) \div 2, LAMBDA mid :
             ConcatRange(parts, lo, mid) \o ConcatRange(parts, mid + 1, hi))

\* ''.join(parts)
Concat(parts0) == With(Tuple(parts0), LAMBDA parts : ConcatRange(parts, 1, Len(parts)))

\* sep.join(parts) for a string sep
Join(parts0, sep) ==
    With(Tuple(parts0), LAMBDA parts :
        Concat([k \in 1..Len(parts) |-> IF k = 1 THEN parts[k] ELSE sep \o parts[k]]))

NL == <<"\n">>

----------------------------------------------------------------------------
(* Regular expressions, as Python's re runs them                           *)

\* Syntax trees.  A repetition's max of -1 is "no limit".
Chr(cs)     == [t |-> "set", neg |-> FALSE, cs |-> cs]     \* [abc], \w, \s
NotChr(cs)  == [t |-> "set", neg |-> TRUE, cs |-> cs]      \* [^abc]
Dot         == [t |-> "dot"]                               \* .
Lit(str)    == [t |-> "lit", s |-> str]                    \* literal text
Cat(rs)     == [t |-> "cat", rs |-> rs]                    \* r1 r2 ...
Alt(rs)     == [t |-> "alt", rs |-> rs]                    \* r1|r2|...
Rep(r, lo, hi, greedy) == [t |-> "rep", r |-> r, min |-> lo, max |-> hi, greedy |-> greedy]
Grp(k, r)   == [t |-> "grp", k |-> k, r |-> r]             \* capturing group k
Eol         == [t |-> "eol"]                               \* $
Bol         == [t |-> "bol"]                               \* ^

Star(r)     == Rep(r, 0, -1, TRUE)      \* r*
Plus(r)     == Rep(r, 1, -1, TRUE)      \* r+
Opt(r)      == Rep(r, 0, 1, TRUE)       \* r?
LazyStar(r) == Rep(r, 0, -1, FALSE)     \* r*?
LazyPlus(r) == Rep(r, 1, -1, FALSE)     \* r+?

NoFlags   == [dotall |-> FALSE, multiline |-> FALSE]
DotAll    == [dotall |-> TRUE, multiline |-> FALSE]      \* re.DOTALL
MultiLine == [dotall |-> FALSE, multiline |-> TRUE]      \* re.MULTILINE

\* whether the one-character pattern r (a class or the dot) accepts s[i]
Accepts(r, s, i, fl) ==
    /\ i >= 1 /\ i <= Len(s)
    /\ IF r.t = "set" THEN (s[i] \in r.cs) # r.neg ELSE fl.dotall \/ s[i] # "\n"

\* Repetition of a one-character pattern: it can stop after any count from
\* r.min to the length of the accepted run (or r.max); greedy tries the longest
\* first, lazy the shortest.
RepChar(r, s, i, caps, fl) ==
    With(IF ~Accepts(r.r, s, i, fl) THEN 0
         ELSE Min({l \in 1..(Len(s) - i + 1) : ~Accepts(r.r, s, i + l, fl)}), LAMBDA run :
        With(IF r.max # -1 /\ r.max < run THEN r.max ELSE run, LAMBDA hi :
            Tuple([k \in 1..(hi - r.min + 1) |->
                      [pos |-> i + (IF r.greedy THEN hi - k + 1 ELSE r.min + k - 1),
                       caps |-> caps]])))

\* M(r, s, i, caps, fl): the ways r matches s from position i, in the order the
\* backtracking matcher tries them; each is the position after the match and the
\* groups captured (a group is <<>> while unset, else <<first, last + 1>>).
RECURSIVE M(_, _, _, _, _)
RECURSIVE MCat(_, _, _, _, _)
RECURSIVE MRep(_, _, _, _, _, _)

\* the ways r matches from each of the outcomes outs, in order
MEach(r, s, outs, fl) ==
    Concat([k \in 1..Len(outs) |-> M(r, s, outs[k].pos, outs[k].caps, fl)])

MCat(rs, k, s, outs, fl) ==
    IF k > Len(rs) \/ outs = <<>> THEN outs
    ELSE With(MEach(rs[k], s, outs, fl), LAMBDA next : MCat(rs, k + 1, s, next, fl))

\* repetition r of a composite pattern, after n iterations; an iteration that
\* consumes nothing is not repeated
MRep(r, n, s, i, caps, fl) ==
    With(IF n >= r.min THEN <<[pos |-> i, caps |-> caps]>> ELSE <<>>, LAMBDA stop :
    With(IF r.max # -1 /\ n >= r.max THEN <<>> ELSE M(r.r, s, i, caps, fl), LAMBDA once :
    With(Concat([k \in 1..Len(once) |->
                    IF once[k].pos > i
                    THEN MRep(r, n + 1, s, once[k].pos, once[k].caps, fl)
                    ELSE <<>>]), LAMBDA more :
        IF r.greedy THEN more \o stop ELSE stop \o more)))

M(r, s, i, caps, fl) ==
    CASE r.t \in {"set", "dot"} ->
            IF Accepts(r, s, i, fl) THEN <<[pos |-> i + 1, caps |-> caps]>> ELSE <<>>
      [] r.t = "lit" -> IF OccursAt(s, r.s, i)
                        THEN <<[pos |-> i + Len(r.s), caps |-> caps]>> ELSE <<>>
      [] r.t = "cat" -> MCat(r.rs, 1, s, <<[pos |-> i, caps |-> caps]>>, fl)
      [] r.t = "alt" -> Concat([k \in 1..Len(r.rs) |-> M(r.rs[k], s, i, caps, fl)])
      [] r.t = "rep" -> IF r.r.t \in {"set", "dot"}
                        THEN RepChar(r, s, i, caps, fl)
                        ELSE MRep(r, 0, s, i, caps, fl)
      [] r.t = "grp" ->
            With(M(r.r, s, i, caps, fl), LAMBDA outs :
                Tuple([k \in 1..Len(outs) |->
                          [pos |-> outs[k].pos,
                           caps |-> [outs[k].caps EXCEPT ![r.k] = <<i, outs[k].pos>>]]]))
      [] r.t = "eol" -> IF \/ i = Len(s) + 1
                           \/ (i = Len(s) /\ s[i] = "\n")
                           \/ (fl.multiline /\ i <= Len(s) /\ s[i] = "\n")
                        THEN <<[pos |-> i, caps |-> caps]>> ELSE <<>>
      [] r.t = "bol" -> IF i = 1 \/ (fl.multiline /\ i > 1 /\ s[i - 1] = "\n")
                        THEN <<[pos |-> i, caps |-> caps]>> ELSE <<>>

NoMatch == [ok |-> FALSE, start |-> 0, end |-> 0, caps |-> <<>>]

\* no group has taken part yet
NoGroups(ng) == Tuple([k \in 1..ng |-> <<>>])

\* pattern.match(s, i): the match re returns for r at position i, if any
MatchAt(r, ng, s, i, fl) ==
    With(M(r, s, i, NoGroups(ng), fl), LAMBDA outs :
        IF Len(outs) = 0 THEN NoMatch
        ELSE [ok |-> TRUE, start |-> i, end |-> outs[1].pos, caps |-> outs[1].caps])

\* pattern.search(s, i): the leftmost match starting at i or later
SearchFrom(r, ng, s0, i, fl) ==
    With(s0, LAMBDA s :
        With({j \in i..(Len(s) + 1) : M(r, s, j, NoGroups(ng), fl) # <<>>}, LAMBDA at :
            IF at = {} THEN NoMatch ELSE MatchAt(r, ng, s, Min(at), fl)))

\* re.search(r, s)
Search(r, ng, s, fl) == SearchFrom(r, ng, s, 1, fl)

\* match.group(k); <<>> for a group that took no part (the source's "or ''")
Group(s, m, k) == IF m.caps[k] = <<>> THEN <<>> ELSE Slice(s, m.caps[k][1], m.caps[k][2] - 1)

\* The scan of re.sub: s from position i cut into the non-overlapping matches,
\* leftmost first, and the text between them.  None of the source's patterns
\* matches the empty string, so every match makes progress.
RECURSIVE Scan(_, _, _, _, _)
Scan(r, ng, s, i, fl) ==
    With(SearchFrom(r, ng, s, i, fl), LAMBDA m :
        IF ~m.ok \/ m.end <= m.start
        THEN <<[isMatch |-> FALSE, m |-> NoMatch, txt |-> Slice(s, i, Len(s))]>>
        ELSE <<[isMatch |-> FALSE, m |-> NoMatch, txt |-> Slice(s, i, m.start - 1)],
               [isMatch |-> TRUE, m |-> m, txt |-> <<>>]>>
             \o Scan(r, ng, s, m.end, fl))

\* re.sub(r, repl, s) with a function repl of the match
Sub(Repl(_, _), r, ng, s0, fl) ==
    With(s0, LAMBDA s :
        With(Scan(r, ng, s, 1, fl), LAMBDA segs :
            Concat([k \in 1..Len(segs) |->
                      IF segs[k].isMatch THEN Repl(s, segs[k].m) ELSE segs[k].txt])))

W == Chr(WordChars)      \* \w
S == Chr(SpaceChars)     \* \s
Quote == {"'", "\""}     \* ['"]

----------------------------------------------------------------------------
(* process_image_paths                                                     *)

BaseUrl == <<"h","t","t","p","s",":","/","/","d","o","c","s",".","a","s","t","r","o",".","b","u","i","l","d","/">>

\* r'^[./~]+'
LeadingMarkers == Cat(<<Bol, Plus(Chr({".", "/", "~"}))>>)

Nothing(s, m) == <<>>

\* re.sub(r'^[./~]+', '', image_path)
StripLeadingMarkers(path) == Sub(Nothing, LeadingMarkers, 0, path, NoFlags)

\* f'![{alt}](https://docs.astro.build/{path})'
ImageLink(alt, path) == <<"!","[">> \o alt \o <<"]","(">> \o BaseUrl \o path \o <<")">>

\* r'import\s+(\w+)\s+from\s+[\'"]([^\'"]+)[\'"]'
mdx_pattern ==
    Cat(<<Lit(<<"i","m","p","o","r","t">>), Plus(S), Grp(1, Plus(W)), Plus(S), Lit(<<"f","r","o","m">>), Plus(S),
          Chr(Quote), Grp(2, Plus(NotChr(Quote))), Chr(Quote)>>)

mdx_replace(s, m) == ImageLink(Group(s, m, 1), StripLeadingMarkers(Group(s, m, 2)))

\* r'!\[(.*?)\]\(([^http].*?)\)': [^http] is a class of one character
md_pattern ==
    Cat(<<Lit(<<"!","[">>), Grp(1, LazyStar(Dot)), Lit(<<"]","(">>),
          Grp(2, Cat(<<NotChr({"h", "t", "p"}), LazyStar(Dot)>>)), Lit(<<")">>)>>)

md_replace(s, m) == ImageLink(Group(s, m, 1), StripLeadingMarkers(Group(s, m, 2)))

\* r'<Image\s+src={([^}]+)}\s+alt="([^"]+)"[^>]*>'
component_pattern ==
    Cat(<<Lit(<<"<","I","m","a","g","e">>), Plus(S), Lit(<<"s","r","c","=","{">>), Grp(1, Plus(NotChr({"}"}))), Lit(<<"}">>),
          Plus(S), Lit(<<"a","l","t","=","\"">>), Grp(2, Plus(NotChr({"\""}))), Lit(<<"\"">>),
          Star(NotChr({">"})), Lit(<<">">>)>>)

component_replace(s, m) ==
    ImageLink(Group(s, m, 2),
              StripLeadingMarkers(StripSet(StripSet(Group(s, m, 1), {"{", "}"}), Quote)))

process_image_paths(md_content) ==
    Sub(component_replace, component_pattern, 2,
        Sub(md_replace, md_pattern, 2,
            Sub(mdx_replace, mdx_pattern, 2, md_content, NoFlags), NoFlags), NoFlags)

----------------------------------------------------------------------------
(* preprocess_code_blocks                                                  *)

Fence == <<BQ, BQ, BQ>>

\* r'```(?:(\w+))?\s*(?:\{([^}]*)\})?\s*(.*?)```' with re.DOTALL
code_pattern ==
    Cat(<<Lit(Fence), Opt(Grp(1, Plus(W))), Star(S),
          Opt(Cat(<<Lit(<<"{">>), Grp(2, Star(NotChr({"}"}))), Lit(<<"}">>)>>)),
          Star(S), Grp(3, LazyStar(Dot)), Lit(Fence)>>)

\* r'title="([^"]+)"'
title_attr_pattern ==
    Cat(<<Lit(<<"t","i","t","l","e","=","\"">>), Grp(1, Plus(NotChr({"\""}))), Lit(<<"\"">>)>>)

HeaderOpen == <<"<","d","i","v"," ","c","l","a","s","s","=","\"","c","o","d","e","-","h","e","a","d","e","r","\"",">","<","i",">">>
HeaderClose == <<"<","/","i",">","<","/","d","i","v",">">>

\* the title named by the attributes, '' when there is none
code_title(attributes0) ==
    With(attributes0, LAMBDA attributes :
        With(Search(title_attr_pattern, 1, attributes, NoFlags), LAMBDA title_match :
            IF attributes # <<>> /\ title_match.ok
            THEN Group(attributes, title_match, 1) ELSE <<>>))

\* the header line of a code block, '' when it has neither title nor language
header_html(title0, language) ==
    With(title0, LAMBDA title :
        With((IF title # <<>> THEN <<title>> ELSE <<>>)
             \o (IF language # <<>> THEN <<<<"(">> \o language \o <<")">>>> ELSE <<>>),
             LAMBDA header_parts :
                 IF header_parts # <<>>
                 THEN HeaderOpen \o Join(header_parts, <<" ">>) \o HeaderClose
                 ELSE <<>>))

\* the replace callback of preprocess_code_blocks
code_replace(s, m) ==
    header_html(code_title(Group(s, m, 2)), Group(s, m, 1))
        \o NL \o Fence \o Group(s, m, 1) \o NL \o Strip(Group(s, m, 3)) \o NL \o Fence

preprocess_code_blocks(md_content) == Sub(code_replace, code_pattern, 3, md_content, DotAll)

----------------------------------------------------------------------------
(* parse_frontmatter: the second definition, which replaces the first when *)
(* the module is loaded and is the one process_files calls                 *)

Marker == <<"-","-","-">>

\* r'\s+i18nReady:\s*true'
i18n_pattern == Cat(<<Plus(S), Lit(<<"i","1","8","n","R","e","a","d","y",":">>), Star(S), Lit(<<"t","r","u","e">>)>>)

\* r':\s*\|'
block_scalar_pattern == Cat(<<Lit(<<":">>), Star(S), Lit(<<"|">>)>>)

ColonSpace(s, m) == <<":", " ">>

\* the two substitutions applied to the frontmatter text
clean_frontmatter(frontmatter) ==
    Sub(ColonSpace, block_scalar_pattern, 0,
        Sub(Nothing, i18n_pattern, 0, frontmatter, NoFlags), NoFlags)

\* A variant that takes the last marker line as the closing one; a document
\* with a marker line in its body tells it from ClosingMarker.
LastMarker(lines) ==
    With({k \in 2..Len(lines) : lines[k] = Marker}, LAMBDA at :
        IF at = {} THEN 0 ELSE Max(at))

\* lines[1:].index('---') + 1, as a 1-based position in lines; 0 for ValueError
ClosingMarker(lines) ==
    With({k \in 2..Len(lines) : lines[k] = Marker}, LAMBDA at :
        IF at = {} THEN 0 ELSE Min(at))

\* (frontmatter, content); found is FALSE where the source returns None
parse_frontmatter(md_content0) ==
    With(md_content0, LAMBDA md_content :
    With(Split(md_content, "\n"), LAMBDA lines :
    With(ClosingMarker(lines), LAMBDA end_of_frontmatter :
        IF Strip(lines[1]) = Marker /\ end_of_frontmatter # 0
        THEN [found |-> TRUE,
              frontmatter |-> clean_frontmatter(
                                  Join(SubSeq(lines, 2, end_of_frontmatter - 1), NL)),
              content |-> Join(SubSeq(lines, end_of_frontmatter + 1, Len(lines)), NL)]
        ELSE [found |-> FALSE, frontmatter |-> <<>>, content |-> md_content])))

----------------------------------------------------------------------------
(* safe_load_frontmatter                                                   *)

TitleKey == <<"t","i","t","l","e">>
DescriptionKey == <<"d","e","s","c","r","i","p","t","i","o","n">>

\* r'<key>:\s*[\'"]?(.*?)(?:[\'"]?\s*$|[\'"]?\s+\w+:)' with re.MULTILINE
field_pattern(key) ==
    Cat(<<Lit(key \o <<":">>), Star(S), Opt(Chr(Quote)), Grp(1, LazyStar(Dot)),
          Alt(<<Cat(<<Opt(Chr(Quote)), Star(S), Eol>>),
                Cat(<<Opt(Chr(Quote)), Plus(S), Plus(W), Lit(<<":">>)>>)>>)>>)

StrValue(v) == [kind |-> "str", v |-> v]

\* the first pass: title and description by pattern
regex_metadata(frontmatter_content) ==
    With(Table([key \in {TitleKey, DescriptionKey} |->
                    Search(field_pattern(key), 1, frontmatter_content, MultiLine)]),
         LAMBDA found :
             Table([key \in {k \in {TitleKey, DescriptionKey} : found[k].ok} |->
                       StrValue(StripSet(Group(frontmatter_content, found[key], 1),
                                         {" ", "'", "\""}))]))

SkipWords == {<<"g","i","t","h","u","b","I","n","t","e","g","r","a","t","i","o","n","U","R","L",":">>, <<"l","a","b","e","l",":">>, <<"m","a","x","H","e","a","d","i","n","g","L","e","v","e","l",":">>}

\* whether the clean-up loop keeps the line
KeepLine(line) ==
    /\ \A skip \in SkipWords : ~Contains(line, skip)
    /\ Contains(line, <<":">>)
    /\ With(Split1(line, ":")[2], LAMBDA value :
           /\ ~(Contains(value, <<"h","t","t","p">>) /\ Contains(value, <<"'">>) /\ ~EndsWith(value, <<"'">>))
           /\ ~(CountChar(value, "'") = 1 \/ CountChar(value, "\"") = 1))

\* One line of a flat YAML mapping, "key: value": the value's scalar, resolved
\* as YAML 1.1 resolves it (quoted text, booleans, integers, null, plain text).
YamlScalar(raw) ==
    With(Strip(raw), LAMBDA v :
        IF Len(v) >= 2 /\ v[1] \in Quote /\ v[Len(v)] = v[1]
        THEN StrValue(Slice(v, 2, Len(v) - 1))
        ELSE IF v \in {<<"t","r","u","e">>, <<"f","a","l","s","e">>} THEN [kind |-> "bool", v |-> v]
        ELSE IF v = <<>> THEN [kind |-> "null", v |-> v]
        ELSE IF \A i \in 1..Len(v) : v[i] \in Digit THEN [kind |-> "int", v |-> v]
        ELSE StrValue(v))

\* whether v is one scalar: quoted text holding no further quote of its kind,
\* or plain text that starts with no indicator character and holds no ": " or " #"
YamlWellFormed(v0) ==
    With(v0, LAMBDA v :
        \/ v = <<>>
        \/ v[1] \in Quote /\ Len(v) >= 2 /\ v[Len(v)] = v[1] /\ CountChar(v, v[1]) = 2
        \/ /\ v[1] \notin Quote \cup {"|", ">", "[", "]", "{", "}", "&", "*", "!", "%", "@", "#", ",", BQ}
           /\ ~Contains(v, <<":", " ">>) /\ ~Contains(v, <<" ", "#">>) /\ v[Len(v)] # ":")

\* whether the line is an entry of a flat mapping: an unindented plain key, a
\* colon, and then a space or the end of the line
YamlEntry(line) ==
    /\ Contains(line, <<":">>)
    /\ With(Split1(line, ":"), LAMBDA kv :
           /\ kv[1] # <<>> /\ \A i \in 1..Len(kv[1]) : kv[1][i] \in WordChars
           /\ kv[2] = <<>> \/ kv[2][1] = " "
           /\ YamlWellFormed(Strip(kv[2])))

\* yaml.safe_load on the cleaned text, for the flat mappings frontmatter is made
\* of: a dict when every non-blank line is an entry (a later entry of a key
\* replacing an earlier one); no dict for empty text and for anything else.
yaml_safe_load(cleaned_content) ==
    With(SelectSeq(Split(cleaned_content, "\n"), LAMBDA l : Strip(l) # <<>>), LAMBDA entries :
        IF Len(entries) > 0 /\ \A k \in 1..Len(entries) : YamlEntry(entries[k])
        THEN With(Tuple([k \in 1..Len(entries) |-> Split1(entries[k], ":")]), LAMBDA kvs :
                 [isDict |-> TRUE,
                  dict |-> Table([key \in {kvs[k][1] : k \in 1..Len(kvs)} |->
                                     YamlScalar(kvs[Max({k \in 1..Len(kvs) : kvs[k][1] = key})][2])])])
        ELSE [isDict |-> FALSE, dict |-> <<>>])

\* metadata.update(parsed_data)
DictUpdate(a, b) ==
    Table([key \in (DOMAIN a) \cup (DOMAIN b) |-> IF key \in DOMAIN b THEN b[key] ELSE a[key]])

NoMetadata == [isNone |-> TRUE, data |-> <<>>]

\* the metadata dict, or None
safe_load_frontmatter(frontmatter_content0) ==
    With(frontmatter_content0, LAMBDA frontmatter_content :
        IF frontmatter_content = <<>> THEN NoMetadata
        ELSE With(regex_metadata(frontmatter_content), LAMBDA first :
             With(yaml_safe_load(Join(SelectSeq(Split(frontmatter_content, "\n"), KeepLine), NL)),
                  LAMBDA parsed_data :
             With(IF parsed_data.isDict THEN DictUpdate(first, parsed_data.dict) ELSE first,
                  LAMBDA metadata :
                 IF DOMAIN metadata = {} THEN NoMetadata
                 ELSE [isNone |-> FALSE, data |-> metadata]))))

----------------------------------------------------------------------------
(* get_files_sorted                                                        *)

excluded_dirs == {<<"n","o","d","e","_","m","o","d","u","l","e","s">>, <<".","g","i","t">>, <<"_","i","n","t","e","r","n","a","l">>, <<"d","i","s","t">>, <<"t","e","m","p">>, <<"_","_","p","y","c","a","c","h","e","_","_">>}

IndexMd == <<"i","n","d","e","x",".","m","d">>
Slash == <<"/">>

\* os.path.join(root, parts...) and Path(path).parts, for relative paths
PathString(parts) == Join(parts, Slash)
PathParts(path) == Split(path, "/")

\* A file of the tree is a sequence of names below root_dir: its directories,
\* then its file name.  os.walk prunes a directory that the filter of dirs[:]
\* drops, so it reaches a file only through directories the filter keeps.
Walked(files_on_disk) ==
    {p \in files_on_disk :
        \A k \in 1..(Len(p) - 1) : p[k] \notin excluded_dirs /\ ~StartsWith(p[k], <<"_">>)}

\* file.endswith(('.md', '.mdx'))
IsDocument(file) == EndsWith(file, <<".","m","d">>) \/ EndsWith(file, <<".","m","d","x">>)

full_path(root_dir, p) == root_dir \o Slash \o PathString(p)

\* any(x in Path(full_path).parts for x in excluded_dirs)
InExcludedPath(root_dir, p) ==
    With(PathParts(full_path(root_dir, p)), LAMBDA parts :
        \E x \in excluded_dirs : \E k \in 1..Len(parts) : parts[k] = x)

\* is_index = file == 'index.md'
is_index(file) == file = IndexMd

\* os.path.dirname(full_path)
dir_path(root_dir, p) ==
    IF Len(p) = 1 THEN root_dir
    ELSE root_dir \o Slash \o PathString(SubSeq(p, 1, Len(p) - 1))

\* f"{dir_path}/{'0' if is_index else '1'}{file}"
sort_key(root_dir, p) ==
    dir_path(root_dir, p) \o Slash
        \o (IF is_index(p[Len(p)]) THEN <<"0">> ELSE <<"1">>) \o p[Len(p)]

\* all_files.sort(key=...): the keys of distinct files differ, so the order
\* is the order of the keys
SortedByKey(root_dir, set0) ==
    With(set0, LAMBDA set :
        With(Table([p \in set |-> sort_key(root_dir, p)]), LAMBDA key :
            Tuple([k \in 1..Cardinality(set) |->
                      CHOOSE p \in set :
                          Cardinality({q \in set : StrLess(key[q], key[p])}) = k - 1])))

\* the list returned; raised is TRUE for "No markdown files found"
get_files_sorted(root_dir, files_on_disk) ==
    With({p \in Walked(files_on_disk) :
             IsDocument(p[Len(p)]) /\ ~InExcludedPath(root_dir, p)}, LAMBDA all_files :
        With(SortedByKey(root_dir, all_files), LAMBDA sorted :
            [raised |-> all_files = {},
             files |-> Tuple([k \in 1..Len(sorted) |-> full_path(root_dir, sorted[k])])]))

----------------------------------------------------------------------------
(* process_files                                                           *)

DigitChars == <<"0", "1", "2", "3", "4", "5", "6", "7", "8", "9">>

\* str(n) for n >= 0
RECURSIVE IntToStr(_)
IntToStr(n) ==
    IF n < 10 THEN <<DigitChars[n + 1]>>
    ELSE IntToStr(n \div 10) \o <<DigitChars[(n % 10) + 1]>>

\* os.path.relpath(file_path, root) for a file below root
relpath(file_path, root) == Slice(file_path, Len(root) + 2, Len(file_path))

\* os.path.basename(file_path)
basename(file_path) == With(PathParts(file_path), LAMBDA parts : parts[Len(parts)])

\* A variant that counts every file at its literal depth.
LiteralDepth(file_path, root) == CountChar(relpath(file_path, root), "/")

\* depth = rel_path.count(os.sep), one less for an index.md below the root
DepthOf(file_path, root) ==
    With(CountChar(relpath(file_path, root), "/"), LAMBDA depth :
        IF basename(file_path) = IndexMd /\ depth > 0 THEN depth - 1 ELSE depth)

\* while len(numbering) <= depth: numbering.append(0)
ExtendNumbering(numbering_, depth) ==
    Tuple([i \in 1..(IF Len(numbering_) > depth THEN Len(numbering_) ELSE depth + 1) |->
              IF i <= Len(numbering_) THEN numbering_[i] ELSE 0])

\* A variant that increments the counter at depth and leaves the deeper
\* counters as they are.
IncrementOnly(numbering_, depth) ==
    With(ExtendNumbering(numbering_, depth), LAMBDA ext :
        Tuple([i \in 1..Len(ext) |-> IF i = depth + 1 THEN ext[i] + 1 ELSE ext[i]]))

\* numbering[depth] += 1; for i in range(depth + 1, len(numbering)): numbering[i] = 0
\* (position depth + 1 here: sequences start at 1)
NextNumbering(numbering_, depth) ==
    With(ExtendNumbering(numbering_, depth), LAMBDA ext :
        Tuple([i \in 1..Len(ext) |->
                  IF i = depth + 1 THEN ext[i] + 1 ELSE IF i > depth + 1 THEN 0 ELSE ext[i]]))

\* '.'.join(map(str, numbering[:depth + 1]))
toc_numbering(shown) == Join([i \in 1..Len(shown) |-> IntToStr(shown[i])], <<".">>)

UpperOf == <<"A","B","C","D","E","F","G","H","I","J","K","L","M",
             "N","O","P","Q","R","S","T","U","V","W","X","Y","Z">>
LowerOf == <<"a","b","c","d","e","f","g","h","i","j","k","l","m",
             "n","o","p","q","r","s","t","u","v","w","x","y","z">>

\* str.title(): a letter after a non-letter in upper case, other letters in lower
TitleCase(s0) ==
    With(s0, LAMBDA s :
        Tuple([i \in 1..Len(s) |->
                  IF s[i] \in Lower /\ (i = 1 \/ s[i - 1] \notin (Lower \cup Upper))
                  THEN UpperOf[CHOOSE k \in 1..26 : LowerOf[k] = s[i]]
                  ELSE IF s[i] \in Upper /\ ~(i = 1 \/ s[i - 1] \notin (Lower \cup Upper))
                  THEN LowerOf[CHOOSE k \in 1..26 : UpperOf[k] = s[i]]
                  ELSE s[i]]))

\* Path(file_path).stem: the base name without its last suffix
Stem(file_path) ==
    With(basename(file_path), LAMBDA name :
        With({i \in 2..Len(name) : name[i] = "."}, LAMBDA dots :
            IF dots = {} THEN name ELSE Slice(name, 1, Max(dots) - 1)))

\* data.get('title', Path(file_path).stem.title())
toc_title(data, file_path) ==
    IF TitleKey \in DOMAIN data THEN data[TitleKey].v ELSE TitleCase(Stem(file_path))

PageBreak == [kind |-> "page-break", id |-> <<>>, path |-> <<>>, description |-> <<>>, body |-> <<>>]

\* What the loop body computes from the text of a document before it numbers
\* it: the frontmatter (found is FALSE for None), the metadata, the body.
Prepare(md_text) ==
    With(parse_frontmatter(preprocess_code_blocks(process_image_paths(md_text))), LAMBDA parsed :
        [found |-> parsed.found,
         frontmatter |-> parsed.frontmatter,
         data |-> IF parsed.found THEN safe_load_frontmatter(parsed.frontmatter)
                  ELSE NoMetadata,
         md_content |-> parsed.content])

\* A variant that numbers every document that could be read.
AlwaysNumbered(prep) == TRUE

\* "if frontmatter:" and "if data is not None:"
HasMetadata(prep) == prep.frontmatter # <<>> /\ ~prep.data.isNone

\* The documents a file may hold.  readable: open() and read() succeed;
\* renders: markdown.markdown (and the path annotation before it) succeeds.
DocTitled        == [readable |-> TRUE, renders |-> TRUE, text |-> <<"-","-","-","\n","t","i","t","l","e",":"," ","I","n","t","r","o","\n","-","-","-","\n","H","i">>]
DocDescribed     == [readable |-> TRUE, renders |-> TRUE, text |-> <<"-","-","-","\n","d","e","s","c","r","i","p","t","i","o","n",":"," ","\"","D","\"","\n","-","-","-","\n","H","i">>]
DocNoFrontmatter == [readable |-> TRUE, renders |-> TRUE, text |-> <<"H","i">>]
DocNoMetadata    == [readable |-> TRUE, renders |-> TRUE, text |-> <<"-","-","-","\n","h","e","l","l","o","\n","-","-","-","\n","H","i">>]
DocUnreadable    == [readable |-> FALSE, renders |-> TRUE, text |-> <<>>]
DocUnrenderable  == [readable |-> TRUE, renders |-> FALSE, text |-> <<"-","-","-","\n","t","i","t","l","e",":"," ","I","n","t","r","o","\n","-","-","-","\n","H","i">>]

Docs == {DocTitled, DocDescribed, DocNoFrontmatter, DocNoMetadata, DocUnreadable,
         DocUnrenderable}

\* Prepare of every document text, computed once
Prepared == Table([t \in {d.text : d \in Docs} |-> Prepare(t)])

\* the TOC line: indent, the counters shown, and the link text and target
TocEntry(depth, shown, toc_full_title) ==
    [indent |-> 5 * depth, numbering |-> shown, full_title |-> toc_full_title]

\* the page: its heading (and anchor), path line, description and body
Page(toc_full_title, file_path, root, prep) ==
    [kind |-> "page", id |-> toc_full_title,
     path |-> relpath(file_path, root),
     description |-> IF DescriptionKey \in DOMAIN prep.data.data
                     THEN prep.data.data[DescriptionKey].v ELSE <<>>,
     body |-> prep.md_content]

\* One iteration of the loop of process_files on the state st = (numbering, toc,
\* pages): the file at file_path holds doc, and last says index = len(files) - 1.
\* An exception leaves the loop body where it is raised, so what was appended
\* before it stays.
LoopBody(st, file_path, root, doc, last) ==
    IF ~doc.readable THEN st
    ELSE IF ~HasMetadata(Prepared[doc.text]) THEN st
    ELSE With(DepthOf(file_path, root), LAMBDA depth :
         With(NextNumbering(st.numbering, depth), LAMBDA numbering1 :
         With(SubSeq(numbering1, 1, depth + 1), LAMBDA shown :
         With(toc_numbering(shown) \o <<" ", "-", " ">>
                  \o toc_title(Prepared[doc.text].data.data, file_path), LAMBDA toc_full_title :
             [numbering |-> numbering1,
              toc |-> Append(st.toc, TocEntry(depth, shown, toc_full_title)),
              pages |-> IF ~doc.renders THEN st.pages
                        ELSE st.pages
                             \o <<Page(toc_full_title, file_path, root, Prepared[doc.text])>>
                             \o (IF last THEN <<>> ELSE <<PageBreak>>)]))))

----------------------------------------------------------------------------
(* Bounds and inputs                                                       *)

MaxFiles == 3      \* files in a tree on disk
MaxSeq == 3        \* files in a list handed to process_files directly
MaxTailLen == 2    \* characters of an image path after its prefix
MaxCodeLen == 3    \* characters of code in a fenced block
MaxNoisy == 2      \* noisy fields in a frontmatter block
MaxDocLines == 4   \* lines of a document given to parse_frontmatter
MaxBodyLines == 2  \* lines of the body after a frontmatter block

SeqsUpTo(set, n) == UNION {[1..k -> set] : k \in 0..n}

\* os.path.join(repo_dir, docs_dir), the discovery root
RootDir == <<"d","o","c","s">>

Guide == <<"g","u","i","d","e">>
SetupMd == <<"s","e","t","u","p",".","m","d">>
IndexMdx == <<"i","n","d","e","x",".","m","d","x">>
AboutMd == <<"a","b","o","u","t",".","m","d">>
RefMd == <<"r","e","f",".","m","d">>
NotesTxt == <<"n","o","t","e","s",".","t","x","t">>

\* the files a tree on disk is drawn from
Universe ==
    {<<IndexMd>>, <<IndexMdx>>, <<AboutMd>>, <<NotesTxt>>,
     <<Guide, IndexMd>>, <<Guide, SetupMd>>, <<Guide, <<"a","p","i">>, RefMd>>,
     <<<<"t","e","m","p">>, AboutMd>>, <<<<"_","d","r","a","f","t","s">>, AboutMd>>}

Trees == {t \in SUBSET Universe : Cardinality(t) <= MaxFiles}

\* the paths a list given to process_files directly is drawn from
ListedPaths ==
    {full_path(RootDir, p) :
        p \in {<<Guide, IndexMd>>, <<Guide, SetupMd>>, <<Guide, <<"a","p","i">>, RefMd>>}}

\* a Markdown image reference
ImageRef(alt, path) == <<"!","[">> \o alt \o <<"]","(">> \o path \o <<")">>

RelativeMarkers == {<<".","/">>, <<".",".","/">>, <<"~">>}
HttpPrefixes == {<<"h","t","t","p",":","/","/">>, <<"h","t","t","p","s",":","/","/">>}

ImageInputs ==
    {[family |-> "image", alt |-> alt, prefix |-> prefix, tail |-> tail,
      src |-> ImageRef(alt, prefix \o tail)] :
        alt \in {<<>>, <<"a">>},
        prefix \in {<<>>} \cup RelativeMarkers \cup HttpPrefixes,
        tail \in SeqsUpTo({"a", "h", "p", "t"}, MaxTailLen) \ {<<>>}}

TitleAttr == <<"{","t","i","t","l","e","=","\"","a","\"","}">>
OtherAttr == <<"{","x","}">>

\* a fenced code block: the fence, the language, the attribute string after a
\* space, the code on lines of its own, the fence
CodeBlock(language, attributes, code) ==
    Fence \o language \o (IF attributes = <<>> THEN <<>> ELSE <<" ">> \o attributes)
        \o NL \o code \o NL \o Fence

CodeInputs ==
    {[family |-> "code", language |-> language, attributes |-> attributes, code |-> code,
      src |-> CodeBlock(language, attributes, code)] :
        language \in {<<>>, <<"j","s">>},
        attributes \in {<<>>, TitleAttr, OtherAttr},
        code \in SeqsUpTo({"a", "{", "}", " ", "\n"}, MaxCodeLen)}

TitleLine == <<"t","i","t","l","e",":"," ","\"","I","n","t","r","o","\"">>
DescriptionLine == <<"d","e","s","c","r","i","p","t","i","o","n",":"," ","\"","A","b","o","u","t","\"">>
NoisyLines == {<<"i","1","8","n","R","e","a","d","y",":"," ","t","r","u","e">>, <<"l","a","b","e","l",":"," ","S","t","a","r","t">>,
               <<"g","i","t","h","u","b","I","n","t","e","g","r","a","t","i","o","n","U","R","L",":"," ","'","h","t","t","p","s",":","/","/","g","/","x","'">>, <<"m","a","x","H","e","a","d","i","n","g","L","e","v","e","l",":"," ","4">>}

\* the two fields and up to MaxNoisy noisy fields, each once, in any order
FieldBlocks ==
    {b \in SeqsUpTo({TitleLine, DescriptionLine} \cup NoisyLines, 2 + MaxNoisy) :
        /\ \A i, j \in 1..Len(b) : b[i] = b[j] => i = j
        /\ \E i \in 1..Len(b) : b[i] = TitleLine
        /\ \E i \in 1..Len(b) : b[i] = DescriptionLine}

\* a document: the block between two marker lines, then a body
FieldInputs ==
    {[family |-> "fields", lines |-> b,
      src |-> Marker \o NL \o Join(b, NL) \o NL \o Marker \o NL \o <<"B","o","d","y">>] :
        b \in FieldBlocks}

DocLines == {Marker, <<"-","-","-"," ">>, <<"k",":"," ","|">>}

\* documents of up to MaxDocLines lines
LineInputs ==
    {[family |-> "lines", lines |-> l, src |-> Join(l, NL)] :
        l \in SeqsUpTo(DocLines, MaxDocLines) \ {<<>>}}

\* the lines of an MDX body: an import statement, a line of text
ImportLine == <<"i","m","p","o","r","t"," ","{","A","}"," ","f","r","o","m"," ","'","a","'",";">>
TextLine == <<"H","i">>

\* documents with a frontmatter block and a body of up to MaxBodyLines lines
ImportInputs ==
    {[family |-> "lines", lines |-> <<Marker, TitleLine, Marker>> \o b,
      src |-> Join(<<Marker, TitleLine, Marker>> \o b, NL)] :
        b \in SeqsUpTo({ImportLine, TextLine}, MaxBodyLines) \ {<<>>}}

----------------------------------------------------------------------------
(* The run: discovery, then process_files                                  *)

NoText == [family |-> "none"]

\* nothing of main but the step under check runs
Outside == [stage |-> "none"]

\* main's call of get_files_sorted; its error ends the run
GetFilesSorted ==
    /\ pc = "discover"
    /\ \E found \in {get_files_sorted(RootDir, tree)} :
           /\ files' = found.files
           /\ pc' = IF found.raised THEN "failed" ELSE "process"
    /\ UNCHANGED <<tree, index, numbering, toc, pages, log, text, result, sys>>

\* one iteration of "for index, file_path in enumerate(files)"; the document
\* read from the file is an input
ProcessFile ==
    /\ pc = "process"
    /\ index < Len(files)
    /\ \E doc \in Docs :
        \E st \in {LoopBody([numbering |-> numbering, toc |-> toc, pages |-> pages],
                            files[index + 1], RootDir, doc, index = Len(files) - 1)} :
            /\ numbering' = st.numbering
            /\ toc' = st.toc
            /\ pages' = st.pages
            /\ log' = Append(log, [doc |-> doc, before |-> numbering, after |-> st.numbering,
                                   toc |-> SubSeq(st.toc, Len(toc) + 1, Len(st.toc)),
                                   pages |-> SubSeq(st.pages, Len(pages) + 1, Len(st.pages))])
    /\ index' = index + 1
    /\ UNCHANGED <<pc, tree, files, text, result, sys>>

\* after the loop: "No content was successfully processed", or the document
\* is assembled from toc and the pages
Finish ==
    /\ pc = "process"
    /\ index = Len(files)
    /\ pc' = IF pages = <<>> THEN "failed" ELSE "done"
    /\ UNCHANGED <<tree, files, index, numbering, toc, pages, log, text, result, sys>>

\* the state at the start of process_files
LoopStart ==
    /\ index = 0
    /\ numbering = <<0>>
    /\ toc = <<>>
    /\ pages = <<>>
    /\ log = <<>>

Init ==
    /\ pc = "discover"
    /\ tree \in Trees
    /\ files = <<>>
    /\ LoopStart
    /\ text = NoText
    /\ result = <<>>
    /\ sys = Outside

Next == GetFilesSorted \/ ProcessFile \/ Finish

Spec == Init /\ [][Next]_vars

\* process_files on any list of files below the root
InitListed ==
    /\ pc = "process"
    /\ tree = {}
    /\ files \in SeqsUpTo(ListedPaths, MaxSeq)
    /\ LoopStart
    /\ text = NoText
    /\ result = <<>>
    /\ sys = Outside

NextListed == ProcessFile \/ Finish

SpecListed == InitListed /\ [][NextListed]_vars

----------------------------------------------------------------------------
(* The text transformations on their own                                   *)

\* no files: the transformation under check is all that runs
NoRun ==
    /\ tree = {}
    /\ files = <<>>
    /\ LoopStart
    /\ result = <<>>
    /\ sys = Outside

\* process_image_paths, on the text and then on its own output
ProcessImagePaths ==
    /\ pc = "image"
    /\ Len(result) < 2
    /\ result' = Append(result, process_image_paths(IF result = <<>> THEN text.src
                                                    ELSE result[Len(result)]))
    /\ UNCHANGED <<pc, tree, files, index, numbering, toc, pages, log, text, sys>>

InitImage == pc = "image" /\ text \in ImageInputs /\ NoRun

NextImage == ProcessImagePaths

SpecImage == InitImage /\ [][NextImage]_vars

PreprocessCodeBlocks ==
    /\ pc = "code"
    /\ result = <<>>
    /\ result' = <<preprocess_code_blocks(text.src)>>
    /\ UNCHANGED <<pc, tree, files, index, numbering, toc, pages, log, text, sys>>

InitCode == pc = "code" /\ text \in CodeInputs /\ NoRun

NextCode == PreprocessCodeBlocks

SpecCode == InitCode /\ [][NextCode]_vars

\* frontmatter, md_content = parse_frontmatter(md_content)
ParseFrontmatter ==
    /\ pc = "parse"
    /\ result' = <<parse_frontmatter(text.src)>>
    /\ pc' = "load"
    /\ UNCHANGED <<tree, files, index, numbering, toc, pages, log, text, sys>>

\* data = safe_load_frontmatter(frontmatter), called when there is frontmatter
LoadFrontmatter ==
    /\ pc = "load"
    /\ result[1].frontmatter # <<>>
    /\ result' = Append(result, safe_load_frontmatter(result[1].frontmatter))
    /\ pc' = "loaded"
    /\ UNCHANGED <<tree, files, index, numbering, toc, pages, log, text, sys>>

InitFrontmatter ==
    pc = "parse" /\ text \in FieldInputs \cup LineInputs \cup ImportInputs /\ NoRun

NextFrontmatter == ParseFrontmatter \/ LoadFrontmatter

SpecFrontmatter == InitFrontmatter /\ [][NextFrontmatter]_vars

----------------------------------------------------------------------------
(* Properties                                                              *)

\* a < b for sequences of counters, component by component; a proper prefix
\* is smaller
LexLess(a, b) ==
    \/ Len(a) < Len(b) /\ SubSeq(b, 1, Len(a)) = a
    \/ \E k \in 1..Len(a) :
           /\ k <= Len(b)
           /\ a[k] < b[k]
           /\ \A j \in 1..(k - 1) : a[j] = b[j]

\* the links of the TOC, in order
TocTitles == [k \in 1..Len(toc) |-> toc[k].full_title]

\* the counters shown by the TOC entries, in order
TocNumberings == [k \in 1..Len(toc) |-> toc[k].numbering]

C1Tree == {<<IndexMd>>, <<Guide, IndexMd>>, <<Guide, SetupMd>>}

C1Files == <<<<"d","o","c","s","/","i","n","d","e","x",".","m","d">>, <<"d","o","c","s","/","g","u","i","d","e","/","i","n","d","e","x",".","m","d">>, <<"d","o","c","s","/","g","u","i","d","e","/","s","e","t","u","p",".","m","d">>>>

\* the three documents of C1Tree have been processed, each with a title
C1Processed ==
    /\ tree = C1Tree
    /\ index = 3
    /\ \A k \in 1..Len(log) : log[k].doc = DocTitled

\* C1 (as amended): for the tree docs/index.md, docs/guide/index.md,
\* docs/guide/setup.md, get_files_sorted returns the files in that order, and
\* when each has a title process_files numbers them 1, 2 and 2.1: the index.md
\* of guide is counted at depth 0, next to the root index, and setup.md at
\* depth 1 below it.
C1_OrderAndNumbering ==
    /\ (tree = C1Tree /\ pc # "discover") => files = C1Files
    /\ C1Processed =>
           /\ TocNumberings = <<<<1>>, <<2>>, <<2, 1>>>>
           /\ TocTitles = <<<<"1"," ","-"," ","I","n","t","r","o">>, <<"2"," ","-"," ","I","n","t","r","o">>, <<"2",".","1"," ","-"," ","I","n","t","r","o">>>>

\* the three titled documents of C1Tree have gone through process_files
C1_Witness == C1Processed /\ Len(toc) = 3 /\ Len(pages) = 5

\* C1 as stated: the same files are numbered 1, 1.1 and 1.1.1.
C1_AsStated ==
    /\ (tree = C1Tree /\ pc # "discover") => files = C1Files
    /\ C1Processed =>
           /\ TocNumberings = <<<<1>>, <<1, 1>>, <<1, 1, 1>>>>
           /\ TocTitles = <<<<"1"," ","-"," ","I","n","t","r","o">>, <<"1",".","1"," ","-"," ","I","n","t","r","o">>, <<"1",".","1",".","1"," ","-"," ","I","n","t","r","o">>>>

\* the depth at which a logged document was numbered
NumberedDepth(entry) == Len(entry.toc[1].numbering) - 1

\* C2: the counters shown by successive TOC entries strictly increase in
\* lexicographic order; a document numbered at depth d adds one to the counter
\* at d, keeps the counters above it and leaves every deeper counter zero; so
\* the first document numbered at depth d + 1 after one at depth d shows 1 as
\* its last component.
C2_IncreasingWithReset ==
    /\ \A k \in 1..(Len(toc) - 1) : LexLess(toc[k].numbering, toc[k + 1].numbering)
    /\ \A k \in 1..Len(log) :
           log[k].toc # <<>> =>
               /\ log[k].toc[1].numbering = SubSeq(log[k].after, 1, NumberedDepth(log[k]) + 1)
               /\ \A i \in 1..Len(log[k].after) :
                      log[k].after[i] =
                          IF i > NumberedDepth(log[k]) + 1 THEN 0
                          ELSE (IF i <= Len(log[k].before) THEN log[k].before[i] ELSE 0)
                               + (IF i = NumberedDepth(log[k]) + 1 THEN 1 ELSE 0)
    /\ \A j, k \in 1..Len(toc) :
           (/\ j < k
            /\ Len(toc[k].numbering) = Len(toc[j].numbering) + 1
            /\ \A i \in (j + 1)..(k - 1) : Len(toc[i].numbering) > Len(toc[k].numbering))
           => toc[k].numbering[Len(toc[k].numbering)] = 1

\* a document at depth 1, one at depth 0 that resets the counter of depth 1,
\* and another at depth 1, which starts again at 1
C2_Witness ==
    /\ Len(toc) = 3
    /\ TocNumberings = <<<<0, 1>>, <<1>>, <<1, 1>>>>
    /\ log[2].before = <<0, 1>>
    /\ log[2].after = <<1, 0>>

\* frontmatter is None, or safe_load_frontmatter returns None
Dropped(doc) ==
    doc.readable /\ (~Prepared[doc.text].found \/ Prepared[doc.text].data.isNone)

\* C3: the iteration of process_files on a document without frontmatter or
\* without metadata appends nothing to the TOC and to the pages, leaves the
\* counters as they were, and leaves the loop running at the next file (the
\* run ends in an error only after the loop, when no page at all was made).
C3_DroppedLeavesNoTrace ==
    [][(Len(log') = Len(log) + 1 /\ Dropped(log'[Len(log')].doc)) =>
           /\ toc' = toc
           /\ pages' = pages
           /\ numbering' = numbering
           /\ log'[Len(log')].toc = <<>>
           /\ log'[Len(log')].pages = <<>>
           /\ log'[Len(log')].after = log'[Len(log')].before
           /\ pc' = "process"
           /\ index' = index + 1]_vars

\* a document without frontmatter and one without metadata, dropped between
\* two documents that are numbered
C3_Witness ==
    /\ Len(log) = 3
    /\ log[1].toc # <<>>
    /\ Dropped(log[2].doc)
    /\ log[3].toc # <<>>
    /\ log[3].before = log[1].after
    /\ Len(toc) = 2

\* reading the file or rendering its body raises
Fails(doc) == ~doc.readable \/ (HasMetadata(Prepared[doc.text]) /\ ~doc.renders)

PagesEmitted == SelectSeq(pages, LAMBDA p : p.kind = "page")

\* C4 as stated: a document whose processing raises leaves no TOC entry, no
\* page and no change of the counters, and at the end the TOC has one entry
\* per page, each linking to the heading of a page.
C4_FailedSkippedEntirely ==
    /\ \A k \in 1..Len(log) :
           Fails(log[k].doc) =>
               /\ log[k].toc = <<>>
               /\ log[k].pages = <<>>
               /\ log[k].after = log[k].before
    /\ Len(toc) = Len(PagesEmitted)
    /\ \A k \in 1..Len(toc) : toc[k].full_title = PagesEmitted[k].id

\* C5 as stated: when the loop has ended, the pages and the page-break
\* markers alternate, starting and ending with a page.
C5_PageBreaksBetween ==
    (pc = "process" /\ index = Len(files)) \/ pc = "done" =>
        /\ \A i \in 1..Len(pages) :
               pages[i].kind = IF i % 2 = 1 THEN "page" ELSE "page-break"
        /\ pages # <<>> => pages[Len(pages)].kind = "page"

\* the directory of a returned file and its name
DirOf(file_path) == With(PathParts(file_path), LAMBDA parts : SubSeq(parts, 1, Len(parts) - 1))

IndexNames == {IndexMd, IndexMdx}

\* C6 as stated: no returned file lies under a directory that is excluded or
\* starts with an underscore, and an index file (index.md or index.mdx) comes
\* before every other returned file of its directory.
C6_ExcludedAndIndexFirst ==
    pc # "discover" =>
        /\ \A k \in 1..Len(files) :
               \A d \in 1..Len(DirOf(files[k])) :
                   /\ DirOf(files[k])[d] \notin excluded_dirs
                   /\ ~StartsWith(DirOf(files[k])[d], <<"_">>)
        /\ \A i, j \in 1..Len(files) :
               (/\ basename(files[i]) \in IndexNames
                /\ basename(files[j]) \notin IndexNames
                /\ DirOf(files[i]) = DirOf(files[j]))
               => i < j

\* the path of the image reference given to process_image_paths
ImagePath == text.prefix \o text.tail

\* C7 as stated: a reference whose path starts with http is left as it is; any
\* other is rewritten to the base URL with its alt text and its path without
\* the leading marker; a second application changes nothing.
C7_RewrittenUnlessHttp ==
    /\ Len(result) >= 1 =>
           result[1] = IF StartsWith(ImagePath, <<"h","t","t","p">>) THEN text.src
                       ELSE ImageRef(text.alt,
                                     BaseUrl \o (IF text.prefix \in RelativeMarkers
                                                 THEN text.tail ELSE ImagePath))
    /\ Len(result) = 2 => result[2] = result[1]

\* the header line C8 describes for the block given to preprocess_code_blocks
C8Header ==
    IF text.attributes # TitleAttr /\ text.language = <<>> THEN <<>>
    ELSE HeaderOpen
         \o (IF text.attributes = TitleAttr THEN <<"a">> ELSE <<>>)
         \o (IF text.attributes = TitleAttr /\ text.language # <<>> THEN <<" ">> ELSE <<>>)
         \o (IF text.language # <<>> THEN <<"(">> \o text.language \o <<")">> ELSE <<>>)
         \o HeaderClose

\* C8 as stated: the output is the header line (empty without title and
\* language), then the fence with the language, the code without its leading
\* and trailing whitespace, and the closing fence, whatever the code is.
C8_HeaderAndCodeKept ==
    result # <<>> =>
        result[1] = C8Header \o NL \o Fence \o text.language \o NL
                        \o Strip(text.code) \o NL \o Fence

\* C9 as stated: for a block with title: "Intro", description: "About" and
\* noisy fields at any position, the metadata is exactly
\* {title: Intro, description: About}.
C9_ExactlyTitleAndDescription ==
    (text.family = "fields" /\ Len(result) = 2) =>
        /\ ~result[2].isNone
        /\ DOMAIN result[2].data = {TitleKey, DescriptionKey}
        /\ result[2].data[TitleKey] = StrValue(<<"I","n","t","r","o">>)
        /\ result[2].data[DescriptionKey] = StrValue(<<"A","b","o","u","t">>)

\* the lines of the document given to parse_frontmatter
LinesOfText ==
    IF text.family = "lines" THEN text.lines
    ELSE <<Marker>> \o text.lines \o <<Marker, <<"B","o","d","y">>>>

\* the first line after the first that is exactly the marker, 0 if there is none
C10Closing ==
    IF \E k \in 2..Len(LinesOfText) : LinesOfText[k] = Marker
    THEN Min({k \in 2..Len(LinesOfText) : LinesOfText[k] = Marker})
    ELSE 0

\* the lines strictly between the first line and the closing marker, and the
\* lines after it, joined by newlines
C10Between == Join(SubSeq(LinesOfText, 2, C10Closing - 1), NL)
C10After == Join(SubSeq(LinesOfText, C10Closing + 1, Len(LinesOfText)), NL)

\* C10 (as amended): parse_frontmatter reports frontmatter exactly when the
\* first line, stripped of surrounding whitespace, is the marker and a later
\* line is exactly the marker.  The frontmatter is then the text of the lines
\* strictly between the first line and the first such later line after two
\* substitutions (each "i18nReady: true" that follows whitespace is removed,
\* each colon followed by optional whitespace and a bar becomes ": "), so it is
\* that text itself when it holds neither; the body is the lines after the
\* closing marker.  Otherwise the frontmatter is absent and the body is the
\* whole document.
C10_FrontmatterBetweenMarkers ==
    Len(result) >= 1 =>
        IF Strip(LinesOfText[1]) = Marker /\ C10Closing # 0
        THEN /\ result[1].found
             /\ result[1].frontmatter = clean_frontmatter(C10Between)
             /\ (~Contains(C10Between, <<"i","1","8","n","R","e","a","d","y">>) /\ ~Contains(C10Between, <<"|">>))
                    => result[1].frontmatter = C10Between
             /\ result[1].content = C10After
        ELSE /\ ~result[1].found
             /\ result[1].content = text.src

\* a first line that is the marker only once stripped, a block scalar
\* indicator between the markers, and a body
C10_Witness ==
    /\ text.family = "lines"
    /\ text.lines = <<<<"-","-","-"," ">>, <<"k",":"," ","|">>, Marker, <<"k",":"," ","|">>>>
    /\ Len(result) >= 1
    /\ result[1] = [found |-> TRUE, frontmatter |-> <<"k",":"," ">>, content |-> <<"k",":"," ","|">>]

\* C10 as stated: frontmatter is reported exactly when the first line is
\* exactly the marker and a later line is exactly the marker, and it is then
\* the lines strictly between them.
C10_AsStated ==
    Len(result) >= 1 =>
        IF LinesOfText[1] = Marker /\ C10Closing # 0
        THEN /\ result[1].found
             /\ result[1].frontmatter = C10Between
             /\ result[1].content = C10After
        ELSE /\ ~result[1].found
             /\ result[1].content = text.src

----------------------------------------------------------------------------
(* main: directories, exceptions, clone_repo                               *)

\* repo_dir of main, and the directory tempfile.mkdtemp() returns
RepoDir == "astro-docs"
TempDir == "mkdtemp"

NoException == "none"
GitCommandError == "GitCommandError"
OtherException == "Exception"
DocumentationProcessingError == "DocumentationProcessingError"

\* what a call into git, the filesystem or the browser can do
Outcomes == {NoException, GitCommandError, OtherException}

\* the pipeline stages of main
Stages == <<"sync", "discovery", "processing", "rendering">>

\* shutil.rmtree(directory): a directory holding an entry that cannot be
\* unlinked stays where it is, and the call reports the error
rmtree_fails(s, directory) == directory \in s.locked

rmtree(s, directory) ==
    IF rmtree_fails(s, directory) THEN s
    ELSE [s EXCEPT !.dirs = @ \ {directory}]

\* cleanup_directory: the error of rmtree is printed as a warning and dropped
cleanup_directory(s, directory) ==
    IF directory \in s.dirs THEN rmtree(s, directory) ELSE s

\* the calls of clone_repo's two paths, in order
UpdateSteps == <<"Repo", "remotes.origin", "origin.fetch", "git.checkout", "origin.pull">>

FreshSteps ==
    <<"os.makedirs", "CloneProgress", "Repo.init", "config_writer", "parent.mkdir",
      "write_text", "create_remote", "origin.fetch", "git.checkout">>

CloneSteps(path) == IF path = "update" THEN UpdateSteps ELSE FreshSteps

\* the calls that write below repo_dir: each can leave an entry there that
\* cannot be unlinked (a read-only object file, a lock still held)
WritesRepo(call) ==
    call \in {"Repo.init", "config_writer", "parent.mkdir", "write_text", "create_remote",
              "origin.fetch", "git.checkout", "origin.pull"}

\* the effect of a call of clone_repo that returned
CloneEffect(s, call) ==
    IF call = "os.makedirs" THEN [s EXCEPT !.dirs = @ \cup {RepoDir}]
    ELSE IF call = "CloneProgress" THEN [s EXCEPT !.progress = "open"]
    ELSE s

\* main enters a stage
Enter(s, stage) == [s EXCEPT !.stage = stage, !.ran = Append(@, stage), !.step = 0]

\* a call of the stage under way raises
Raise(s, exception) == [s EXCEPT !.exc = exception, !.failed = @ \cup {s.stage}]

\* clone_repo(repo_url, branch, docs_dir, repo_dir), up to the choice of path
CloneRepo ==
    /\ pc = "clone_repo"
    /\ pc' = IF RepoDir \in sys.dirs THEN "update" ELSE "fresh"
    /\ sys' = [Enter(sys, "sync") EXCEPT !.progress = "none"]
    /\ UNCHANGED <<tree, files, index, numbering, toc, pages, log, text, result>>

\* one call of the path taken: it returns, or it raises
CloneStep ==
    /\ pc \in {"update", "fresh"}
    /\ sys.step < Len(CloneSteps(pc))
    /\ \E call \in {CloneSteps(pc)[sys.step + 1]}, outcome \in Outcomes, held \in BOOLEAN :
        /\ held => WritesRepo(call)
        /\ \E s \in {[sys EXCEPT !.locked = IF held THEN @ \cup {RepoDir} ELSE @]} :
            IF outcome = NoException
            THEN /\ sys' = [CloneEffect(s, call) EXCEPT !.step = @ + 1]
                 /\ pc' = pc
            ELSE /\ sys' = Raise(s, outcome)
                 /\ pc' = "clone_except"
    /\ UNCHANGED <<tree, files, index, numbering, toc, pages, log, text, result>>

\* "return" of the update path, or the end of the try block
CloneDone ==
    /\ pc \in {"update", "fresh"}
    /\ sys.step = Len(CloneSteps(pc))
    /\ pc' = "clone_finally"
    /\ UNCHANGED <<tree, files, index, numbering, toc, pages, log, text, result, sys>>

\* except GitCommandError / except Exception: cleanup_directory, then raise
CloneExcept ==
    /\ pc = "clone_except"
    /\ sys' = [cleanup_directory(sys, RepoDir) EXCEPT !.exc = DocumentationProcessingError]
    /\ pc' = "clone_finally"
    /\ UNCHANGED <<tree, files, index, numbering, toc, pages, log, text, result>>

\* finally: progress.finalize(); then the caller has the result
CloneFinally ==
    /\ pc = "clone_finally"
    /\ sys' = [sys EXCEPT !.progress = IF @ = "open" THEN "closed" ELSE @]
    /\ pc' = IF sys.exc = NoException THEN "get_files_sorted" ELSE "main_except"
    /\ UNCHANGED <<tree, files, index, numbering, toc, pages, log, text, result>>

----------------------------------------------------------------------------
(* generate_pdf                                                            *)

\* the calls of the try block, in order
PdfSteps ==
    <<"sync_playwright.start", "chromium.launch", "new_context", "new_page",
      "set_viewport_size", "set_default_timeout", "set_content",
      "wait_for_load_state.networkidle", "wait_for_load_state.domcontentloaded", "pdf">>

\* the local a call binds when it returns
Binds(call) ==
    IF call = "sync_playwright.start" THEN {"playwright"}
    ELSE IF call = "chromium.launch" THEN {"browser"}
    ELSE IF call = "new_context" THEN {"context"}
    ELSE IF call = "new_page" THEN {"page"}
    ELSE {}

\* the finally block: close or stop, in this order, what is in locals()
Releases == <<"page", "context", "browser", "playwright">>

\* main calls generate_pdf(final_html, output_pdf): one call of the try block
PdfStep ==
    /\ pc = "generate_pdf"
    /\ sys.step < Len(PdfSteps)
    /\ \E call \in {PdfSteps[sys.step + 1]}, outcome \in {NoException, OtherException} :
        IF outcome = NoException
        THEN /\ sys' = [sys EXCEPT !.bound = @ \cup Binds(call), !.step = @ + 1]
             /\ pc' = pc
        ELSE /\ sys' = Raise(sys, outcome)
             /\ pc' = "pdf_except"
    /\ UNCHANGED <<tree, files, index, numbering, toc, pages, log, text, result>>

\* the try block ran to its end
PdfTryDone ==
    /\ pc = "generate_pdf"
    /\ sys.step = Len(PdfSteps)
    /\ sys' = [sys EXCEPT !.step = 0]
    /\ pc' = "pdf_finally"
    /\ UNCHANGED <<tree, files, index, numbering, toc, pages, log, text, result>>

\* except Exception: raise DocumentationProcessingError
PdfExcept ==
    /\ pc = "pdf_except"
    /\ sys' = [sys EXCEPT !.exc = DocumentationProcessingError, !.step = 0]
    /\ pc' = "pdf_finally"
    /\ UNCHANGED <<tree, files, index, numbering, toc, pages, log, text, result>>

\* one "if ... in locals(): ....close()" of the finally block: a close that
\* raises leaves the block, and its exception replaces the one in flight
PdfRelease ==
    /\ pc = "pdf_finally"
    /\ sys.step < Len(Releases)
    /\ \E local \in {Releases[sys.step + 1]}, outcome \in {NoException, OtherException} :
        IF local \notin sys.bound
        THEN /\ outcome = NoException
             /\ sys' = [sys EXCEPT !.step = @ + 1]
             /\ pc' = pc
        ELSE IF outcome = NoException
        THEN /\ sys' = [sys EXCEPT !.released = @ \cup {local}, !.step = @ + 1]
             /\ pc' = pc
        ELSE /\ sys' = Raise(sys, outcome)
             /\ pc' = "pdf_return"
    /\ UNCHANGED <<tree, files, index, numbering, toc, pages, log, text, result>>

\* the finally block ran to its end
PdfFinallyDone ==
    /\ pc = "pdf_finally"
    /\ sys.step = Len(Releases)
    /\ pc' = "pdf_return"
    /\ UNCHANGED <<tree, files, index, numbering, toc, pages, log, text, result, sys>>

\* generate_pdf returns to main, or its exception reaches main
PdfReturn ==
    /\ pc = "pdf_return"
    /\ pc' = IF sys.exc = NoException THEN "main_finally" ELSE "main_except"
    /\ UNCHANGED <<tree, files, index, numbering, toc, pages, log, text, result, sys>>

----------------------------------------------------------------------------
(* main                                                                    *)

\* an exit that ignores what main returned
ExitZero(ret) == 0

\* exit(main()): main returns None when it falls off its end
ExitCode(ret) == IF ret = "None" THEN 0 ELSE 1

\* "if not os.path.exists('styles.css'): create_default_css()"
MainStart ==
    /\ pc = "main"
    /\ \E outcome \in {NoException, DocumentationProcessingError} :
        /\ sys' = [sys EXCEPT !.exc = outcome]
        /\ pc' = IF outcome = NoException THEN "mkdtemp" ELSE "main_except"
    /\ UNCHANGED <<tree, files, index, numbering, toc, pages, log, text, result>>

\* temp_dir = tempfile.mkdtemp()
Mkdtemp ==
    /\ pc = "mkdtemp"
    /\ \E outcome \in {NoException, OtherException} :
        IF outcome = NoException
        THEN /\ sys' = [sys EXCEPT !.temp_dir = TRUE, !.dirs = @ \cup {TempDir}]
             /\ pc' = "clone_repo"
        ELSE /\ sys' = [sys EXCEPT !.exc = outcome]
             /\ pc' = "main_except"
    /\ UNCHANGED <<tree, files, index, numbering, toc, pages, log, text, result>>

\* files_to_process = get_files_sorted(docs_dir_full_path), then styles.css
\* is read for the cover page
MainDiscover ==
    /\ pc = "get_files_sorted"
    /\ \E found \in {get_files_sorted(RootDir, tree)},
          s \in {Enter(sys, "discovery")},
          outcome \in {NoException, OtherException} :
        IF found.raised
        THEN /\ outcome = NoException
             /\ sys' = Raise(s, DocumentationProcessingError)
             /\ pc' = "main_except"
             /\ files' = files
        ELSE /\ files' = found.files
             /\ IF outcome = NoException
                THEN /\ sys' = Enter(s, "processing")
                     /\ pc' = "process"
                ELSE /\ sys' = [s EXCEPT !.exc = outcome]
                     /\ pc' = "main_except"
    /\ UNCHANGED <<tree, index, numbering, toc, pages, log, text, result>>

\* process_files has raised or returned; add_license_page; generate_pdf is
\* called
MainProcessed ==
    /\ pc \in {"failed", "done"}
    /\ IF pc = "failed"
       THEN /\ sys' = Raise(sys, DocumentationProcessingError)
            /\ pc' = "main_except"
       ELSE /\ sys' = Enter(sys, "rendering")
            /\ pc' = "generate_pdf"
    /\ UNCHANGED <<tree, files, index, numbering, toc, pages, log, text, result>>

\* except DocumentationProcessingError / except Exception: print, return 1
MainExcept ==
    /\ pc = "main_except"
    /\ sys' = [sys EXCEPT !.handler = IF sys.exc = DocumentationProcessingError
                                      THEN "Error" ELSE "Unexpected error",
                          !.exc = NoException,
                          !.ret = "1"]
    /\ pc' = "main_finally"
    /\ UNCHANGED <<tree, files, index, numbering, toc, pages, log, text, result>>

\* finally: "if temp_dir and os.path.exists(temp_dir): shutil.rmtree(temp_dir,
\* ignore_errors=True)", which drops the error of a directory that stays (no
\* call of main writes into temp_dir, so it holds nothing that cannot be
\* unlinked); then exit(main())
MainFinally ==
    /\ pc = "main_finally"
    /\ \E s \in {IF sys.temp_dir /\ TempDir \in sys.dirs THEN rmtree(sys, TempDir) ELSE sys} :
        sys' = [s EXCEPT !.code = ExitCode(sys.ret)]
    /\ pc' = "exit"
    /\ UNCHANGED <<tree, files, index, numbering, toc, pages, log, text, result>>

\* the trees the synced copy can hold under the discovery root
MainTrees == SUBSET {<<IndexMd>>, <<AboutMd>>, <<NotesTxt>>}

\* the start of main: the local copy of an earlier run may be there, and may
\* hold an entry that cannot be unlinked
InitMain ==
    /\ pc = "main"
    /\ tree \in MainTrees
    /\ files = <<>>
    /\ LoopStart
    /\ text = NoText
    /\ result = <<>>
    /\ \E dirs \in SUBSET {RepoDir} : \E locked \in SUBSET dirs :
        sys = [stage |-> "none", ran |-> <<>>, failed |-> {}, dirs |-> dirs,
               locked |-> locked, temp_dir |-> FALSE, step |-> 0, progress |-> "none",
               exc |-> NoException, bound |-> {}, released |-> {}, handler |-> "none",
               ret |-> "None", code |-> -1]

NextMain ==
    \/ MainStart \/ Mkdtemp
    \/ CloneRepo \/ CloneStep \/ CloneDone \/ CloneExcept \/ CloneFinally
    \/ MainDiscover \/ ProcessFile \/ Finish \/ MainProcessed
    \/ PdfStep \/ PdfTryDone \/ PdfExcept \/ PdfRelease \/ PdfFinallyDone \/ PdfReturn
    \/ MainExcept \/ MainFinally

SpecMain == InitMain /\ [][NextMain]_vars

\* one thread runs main's statements in order, each call returns or raises:
\* a step that can be taken is taken
SpecMainFair == SpecMain /\ WF_vars(NextMain)

----------------------------------------------------------------------------
(* C11: the failure of clone_repo                                          *)

\* the exception of clone_repo has reached main
CloneFailed == pc = "main_except" /\ sys.stage = "sync"

\* C11: whenever clone_repo fails, at any call of either path, the local
\* copy directory does not exist when the error reaches the caller, and the
\* error is a DocumentationProcessingError
C11_FailedCloneLeavesNoCopy ==
    CloneFailed => /\ RepoDir \notin sys.dirs
                   /\ sys.exc = DocumentationProcessingError

----------------------------------------------------------------------------
(* C12: the resources of generate_pdf                                      *)

\* generate_pdf has returned, or its exception has left it
PdfLeft == pc = "pdf_return"

\* C12: on every way out of generate_pdf, whichever call failed (a call of
\* the try block or a release of the finally block), every resource that was
\* acquired has been released, and a failure leaves as a
\* DocumentationProcessingError
C12_ReleasedAndSingleError ==
    PdfLeft => /\ sys.bound \subseteq sys.released
               /\ sys.exc \in {NoException, DocumentationProcessingError}

----------------------------------------------------------------------------
(* C13: every run of main                                                  *)

\* the process has exited
Exited == pc = "exit"

\* sync, discovery, per-document processing and rendering all returned
AllSucceeded == sys.ran = Stages /\ sys.failed = {}

\* the stages run in order, none after a stage that raised; rendering runs
\* only on pages that process_files returned
InOrder ==
    /\ Len(sys.ran) <= Len(Stages)
    /\ pc = "failed" \/ "processing" \in sys.failed => pages = <<>>
    /\ Len(sys.ran) = Len(Stages) => pages # <<>>
    /\ \A i \in DOMAIN sys.ran :
        /\ sys.ran[i] = Stages[i]
        /\ \A j \in 1..(i - 1) : Stages[j] \notin sys.failed

\* C13: every run of main terminates, with the temporary directory removed
\* whatever the outcome; the exit code is 0 exactly when sync, discovery,
\* processing and rendering all succeeded, and 1 otherwise; no stage runs
\* after a stage that raised
C13_TerminatesCleanWithExitCode ==
    /\ <>Exited
    /\ [](Exited => /\ TempDir \notin sys.dirs
                    /\ sys.code \in {0, 1}
                    /\ sys.code = 0 <=> AllSucceeded)
    /\ []InOrder

\* process_files raised after the temporary directory was made: the run has
\* ended with exit code 1, without rendering, the directory removed
C13_Witness ==
    /\ Exited
    /\ sys.temp_dir
    /\ TempDir \notin sys.dirs
    /\ sys.ran = <<"sync", "discovery", "processing">>
    /\ sys.failed = {"processing"}
    /\ sys.handler = "Error"
    /\ sys.code = 1

----------------------------------------------------------------------------
(* C14: import statements in the body                                      *)

\* a line that is an import statement
IsImportLine(line) == StartsWith(line, <<"i","m","p","o","r","t"," ">>)

\* C14: for every document that has frontmatter, no line of the body that
\* parse_frontmatter returns is an import statement
C14_NoImportLineInBody ==
    (Len(result) >= 1 /\ result[1].found) =>
        \A k \in DOMAIN Split(result[1].content, "\n") :
            ~IsImportLine(Split(result[1].content, "\n")[k])

============================================================================
